---- MODULE Spec2Model ----
(***************************************************************************)
(* alx-polly: the poll server actions (createPoll, getUserPolls,           *)
(* getPollById, submitVote, deletePoll, updatePoll) over the polls and     *)
(* votes tables of the README's schema.  A server action is a sequence of  *)
(* awaited calls to the database; every awaited database call is one       *)
(* atomic step, so the three database calls of submitVote are three steps  *)
(* that other requests can interleave with.                                *)
(***************************************************************************)
EXTENDS Integers, Sequences, FiniteSets, Bags, TLC

VARIABLES
    uniqueVotes,  \* whether votes(poll_id, user_id) carries the recommended unique constraint
    polls,        \* the rows of table polls
    nextPollId,   \* the next id gen_random_uuid() hands out (ids are never reused)
    votes,        \* the rows of table votes, a bag of [poll_id, user_id, option_index]
    reqs,         \* the submitVote invocations in flight, by request slot
    last,         \* the most recent invocation that returned, and what it returned
    cast          \* history: every vote row ever inserted

vars == <<uniqueVotes, polls, nextPollId, votes, reqs, last, cast>>

\* ------------------------------------------------------------------ bounds

MaxPolls == 1
MaxReqs == 2

\* --------------------------------------------------------- program constants

MaxQuestionLen == 300
MaxOptions == 10
MinOptions == 2

\* ------------------------------------------------------------------ errors

Null == "null"
ErrInvalidForm == "Provide a question (<=300 chars) and at least two options (max 10)."
ErrCreateLogin == "You must be logged in to create a poll."
ErrUpdateLogin == "You must be logged in to update a poll."
ErrVoteLogin == "You must be logged in to vote."
ErrNotAuthenticated == "Not authenticated"
ErrPollNotFound == "pollError.message"
ErrInvalidOption == "Invalid option selected."
ErrExisting == "existingError.message"
ErrAlreadyVoted == "You have already voted on this poll."
ErrNotOwned == "Poll not found or not owned by you"
ErrUser == "userError.message"
ErrUniqueViolation == "error.message: duplicate key value violates unique constraint"
ErrForeignKey == "error.message: violates foreign key constraint"

\* ---------------------------------------------------------------- identity

Users == {"A", "B"}
NoUser == "null"
\* What supabase.auth.getUser() can answer: a user, no user, or an error (and no user).
AuthAnonymous == "anonymous"
AuthFailure == "failure"
Callers == Users \cup {AuthAnonymous, AuthFailure}
\* The callers of the actions that read data.user alone and drop getUser's error.
Sessions == Users \cup {AuthAnonymous}

getUser(caller) ==
    [user |-> IF caller \in Users THEN caller ELSE NoUser,
     error |-> IF caller = AuthFailure THEN ErrUser ELSE Null]

\* ----------------------------------------------------------------- strings
\* A string is the sequence of its characters.

IsWhitespace(c) == c = " "

RECURSIVE trimStart(_)
trimStart(s) ==
    IF s # <<>> /\ IsWhitespace(Head(s)) THEN trimStart(Tail(s)) ELSE s

RECURSIVE trimEnd(_)
trimEnd(s) ==
    IF s # <<>> /\ IsWhitespace(s[Len(s)]) THEN trimEnd(SubSeq(s, 1, Len(s) - 1)) ELSE s

trim(s) == trimEnd(trimStart(s))

\* Mutant: slice() is left out, the list keeps every entry.
slice_Whole(s, n) == s

slice(s, n) == SubSeq(s, 1, IF Len(s) < n THEN Len(s) ELSE n)

\* ------------------------------------------------------------ form parsing

\* formData.get("question") ?? "": the first value under the key, or "" without one.
rawQuestion(form) == IF form.question = <<>> THEN <<>> ELSE Head(form.question)

\* formData.getAll("options").filter(Boolean): the empty strings go.
RECURSIVE FilterBoolean(_)
FilterBoolean(s) ==
    IF s = <<>> THEN <<>>
    ELSE (IF Head(s) # <<>> THEN <<Head(s)>> ELSE <<>>) \o FilterBoolean(Tail(s))

rawOptions(form) == FilterBoolean(form.options)

NormalQuestion(form) == trim(rawQuestion(form))

\* .filter((opt) => opt.length > 0)
RECURSIVE FilterNonEmpty(_)
FilterNonEmpty(s) ==
    IF s = <<>> THEN <<>>
    ELSE (IF Len(Head(s)) > 0 THEN <<Head(s)>> ELSE <<>>) \o FilterNonEmpty(Tail(s))

TrimAll(s) == [i \in 1..Len(s) |-> trim(s[i])]

NormalOptions(form) == slice(FilterNonEmpty(TrimAll(rawOptions(form))), MaxOptions)

Rejected(question, options) ==
    question = <<>> \/ Len(question) > MaxQuestionLen \/ Len(options) < MinOptions

\* ------------------------------------------------------------------ inputs

Rep(c, n) == [i \in 1..n |-> c]
Pad(s) == <<" ">> \o s \o <<" ", " ">>
Letters == <<"a", "b", "c", "d", "e", "f", "g", "h", "i", "j", "k", "l", "m">>
Str(i) == <<Letters[i]>>

Forms ==
    << \* 1: two options, padded question
       [question |-> <<Pad(<<"q">>)>>, options |-> <<Str(1), Str(2)>>],
       \* 2: three options among blank and padded ones
       [question |-> <<<<"q", " ", "r">>>>,
        options |-> <<Pad(Str(1)), <<>>, <<" ", " ">>, Str(2), Pad(Str(3))>>],
       \* 3: a 300-character question, thirteen options of which eleven are non-blank
       [question |-> <<Pad(Rep("x", 300))>>,
        options |-> [i \in 1..13 |-> IF i = 2 THEN <<>> ELSE IF i = 4 THEN <<" ">>
                                     ELSE Pad(Str(i))]],
       \* 4: no question field
       [question |-> <<>>, options |-> <<Str(1), Str(2)>>],
       \* 5: a blank question
       [question |-> <<<<" ", " ">>>>, options |-> <<Str(1), Str(2)>>],
       \* 6: a 301-character question
       [question |-> <<Rep("x", 301)>>, options |-> <<Str(1), Str(2)>>],
       \* 7: one option
       [question |-> <<<<"q">>>>, options |-> <<Str(1)>>],
       \* 8: one non-blank option among blank ones
       [question |-> <<<<"q">>>>, options |-> <<<<" ">>, Str(1), <<>>, <<" ", " ">>>>] >>

FormIds == 1..Len(Forms)

\* What createPoll and updatePoll make of each form, computed once.
Parsed ==
    [f \in 1..Len(Forms) |->
        [question |-> NormalQuestion(Forms[f]), options |-> NormalOptions(Forms[f])]]

\* An optionIndex is a number: the pair <<n, d>> stands for n / d.
OptionInputs == {<<-1, 1>>, <<0, 1>>, <<2, 1>>, <<3, 2>>}

isInteger(x) == x[1] % x[2] = 0
IntegerOf(x) == x[1] \div x[2]

PollIds == 1..MaxPolls
Reqs == 1..MaxReqs

\* ---------------------------------------------------------------- database

PollRow(id, user, question, options) ==
    [id |-> id, user_id |-> user, question |-> question, options |-> options]

VoteRow(poll, user, index) ==
    [poll_id |-> poll, user_id |-> user, option_index |-> index]

\* from("polls").select().eq("id", id)
PollsById(id) == {p \in polls : p.id = id}

\* from("polls").select().eq("id", id).eq("user_id", user)
PollsOwned(id, user) == {p \in polls : p.id = id /\ p.user_id = user}

\* from("votes").select().eq("poll_id", poll).eq("user_id", user), with multiplicity
VotesOf(poll, user) == {v \in BagToSet(votes) : v.poll_id = poll /\ v.user_id = user}

RECURSIVE CountRows(_)
CountRows(S) ==
    IF S = {} THEN 0
    ELSE LET v == CHOOSE w \in S : TRUE IN CopiesIn(v, votes) + CountRows(S \ {v})

CountVotes(poll, user) == CountRows(VotesOf(poll, user))

\* votes.poll_id references polls(id) on delete cascade
Cascade(deleted) ==
    LET kept == {v \in BagToSet(votes) : v.poll_id \notin {p.id : p \in deleted}}
    IN [v \in kept |-> votes[v]]

\* order("created_at", {ascending: false}): ids are handed out in creation order
RECURSIVE NewestFirst(_)
NewestFirst(rows) ==
    IF rows = {} THEN <<>>
    ELSE LET newest == CHOOSE p \in rows : \A q \in rows : q.id <= p.id
         IN <<newest>> \o NewestFirst(rows \ {newest})

\* --------------------------------------------------------------- responses

Response(op, caller, poll, error, data) ==
    [op |-> op, caller |-> caller, poll |-> poll, error |-> error, data |-> data]

Idle == [pc |-> "idle", user |-> NoUser, poll |-> 0, index |-> 0]

Init ==
    /\ uniqueVotes \in BOOLEAN
    /\ polls = {}
    /\ nextPollId = 1
    /\ votes = EmptyBag
    /\ reqs = [r \in Reqs |-> Idle]
    /\ last = Response("none", AuthAnonymous, 0, Null, <<>>)
    /\ cast = EmptyBag

\* ----------------------------------------------------------------- actions

\* Mutant: the check that getUser() found a user is left out.
createPollError_NoLogin(caller, f) ==
    IF Rejected(Parsed[f].question, Parsed[f].options) THEN ErrInvalidForm
    ELSE IF getUser(caller).error # Null THEN ErrUser
    ELSE Null

createPollError(caller, f) ==
    IF Rejected(Parsed[f].question, Parsed[f].options) THEN ErrInvalidForm
    ELSE IF getUser(caller).error # Null THEN ErrUser
    ELSE IF getUser(caller).user = NoUser THEN ErrCreateLogin
    ELSE Null

createPoll(caller, f) ==
    /\ nextPollId <= MaxPolls
    /\ LET error == createPollError(caller, f) IN
       /\ IF error = Null
          THEN /\ polls' = polls \cup {PollRow(nextPollId, getUser(caller).user,
                                               Parsed[f].question, Parsed[f].options)}
               /\ nextPollId' = nextPollId + 1
          ELSE UNCHANGED <<polls, nextPollId>>
       /\ last' = Response("createPoll", caller, 0, error, <<>>)
    /\ UNCHANGED <<uniqueVotes, votes, reqs, cast>>

getUserPolls(caller) ==
    /\ IF getUser(caller).user = NoUser
       THEN last' = Response("getUserPolls", caller, 0, ErrNotAuthenticated, <<>>)
       ELSE last' = Response("getUserPolls", caller, 0, Null,
                             NewestFirst({p \in polls : p.user_id = getUser(caller).user}))
    /\ UNCHANGED <<uniqueVotes, polls, nextPollId, votes, reqs, cast>>

getPollById(id) ==
    /\ IF PollsById(id) = {}
       THEN last' = Response("getPollById", AuthAnonymous, id, ErrPollNotFound, <<>>)
       ELSE last' = Response("getPollById", AuthAnonymous, id, Null, NewestFirst(PollsById(id)))
    /\ UNCHANGED <<uniqueVotes, polls, nextPollId, votes, reqs, cast>>

\* Mutant: the upper bound of the index check is off by one.
InvalidOption_OffByOne(x, options) ==
    \/ ~isInteger(x)
    \/ IntegerOf(x) < 0
    \/ IntegerOf(x) > Len(options)

InvalidOption(x, options) ==
    \/ ~isInteger(x)
    \/ IntegerOf(x) < 0
    \/ IntegerOf(x) >= Len(options)

\* submitVote up to its first database call: getUser, the poll's row, the index check.
submitVoteError(caller, id, x) ==
    IF getUser(caller).user = NoUser THEN ErrVoteLogin
    ELSE IF PollsById(id) = {} THEN ErrPollNotFound
    ELSE IF \E p \in PollsById(id) : InvalidOption(x, p.options) THEN ErrInvalidOption
    ELSE Null

submitVoteSelectPoll(r, caller, id, x) ==
    /\ reqs[r].pc = "idle"
    /\ LET error == submitVoteError(caller, id, x) IN
       IF error = Null
       THEN /\ reqs' = [reqs EXCEPT ![r] = [pc |-> "selectVote", user |-> getUser(caller).user,
                                            poll |-> id, index |-> IntegerOf(x)]]
            /\ UNCHANGED last
       ELSE /\ last' = Response("submitVote", caller, id, error, <<>>)
            /\ UNCHANGED reqs
    /\ UNCHANGED <<uniqueVotes, polls, nextPollId, votes, cast>>

\* submitVote returns: the request is over.
Return(r, error) ==
    /\ reqs' = [reqs EXCEPT ![r] = Idle]
    /\ last' = Response("submitVote", reqs[r].user, reqs[r].poll, error, <<>>)

\* Mutant: one existing vote is let through, only more than one is refused.
ExistingVoteError_OffByOne(poll, user) ==
    IF CountVotes(poll, user) > 1 THEN ErrAlreadyVoted ELSE Null

\* Mutant: the check for an existing vote is left out.
ExistingVoteError_Unchecked(poll, user) ==
    IF CountVotes(poll, user) > 1 THEN ErrExisting ELSE Null

\* The duplicate-vote check: maybeSingle() fails on more than one row.
ExistingVoteError(poll, user) ==
    IF CountVotes(poll, user) > 1 THEN ErrExisting
    ELSE IF CountVotes(poll, user) = 1 THEN ErrAlreadyVoted
    ELSE Null

submitVoteSelectVote(r) ==
    /\ reqs[r].pc = "selectVote"
    /\ LET error == ExistingVoteError(reqs[r].poll, reqs[r].user) IN
       IF error = Null
       THEN /\ reqs' = [reqs EXCEPT ![r].pc = "insertVote"]
            /\ UNCHANGED last
       ELSE Return(r, error)
    /\ UNCHANGED <<uniqueVotes, polls, nextPollId, votes, cast>>

\* Mutant: the schema without the unique constraint on votes(poll_id, user_id).
InsertVoteError_NoConstraint(poll, user) ==
    IF PollsById(poll) = {} THEN ErrForeignKey ELSE Null

\* What the schema answers to the insert of a vote.
InsertVoteError(poll, user) ==
    IF PollsById(poll) = {} THEN ErrForeignKey
    ELSE IF uniqueVotes /\ CountVotes(poll, user) > 0 THEN ErrUniqueViolation
    ELSE Null

\* Mutant: an upsert on poll_id in place of the insert.
InsertVote_Upsert(row) ==
    SetToBag({row}) (+)
    [v \in {w \in BagToSet(votes) : w.poll_id # row.poll_id} |-> votes[v]]

\* from("votes").insert([row])
InsertVote(row) == votes (+) SetToBag({row})

submitVoteInsert(r) ==
    /\ reqs[r].pc = "insertVote"
    /\ LET error == InsertVoteError(reqs[r].poll, reqs[r].user)
           row == VoteRow(reqs[r].poll, reqs[r].user, reqs[r].index)
       IN
       /\ IF error = Null
          THEN votes' = InsertVote(row) /\ cast' = cast (+) SetToBag({row})
          ELSE UNCHANGED <<votes, cast>>
       /\ Return(r, error)
    /\ UNCHANGED <<uniqueVotes, polls, nextPollId>>

\* delete({count: "exact"}).eq("id", id).eq("user_id", user.id)
DeletedRows(id, user) == PollsOwned(id, user)

\* Mutant: delete() without {count: "exact"} answers count null, so count ?? 0 is 0.
ExactCount_Null(deleted) == 0

\* The count the delete answers with: count ?? 0.
ExactCount(deleted) == Cardinality(deleted)

deletePoll(caller, id) ==
    /\ IF getUser(caller).user = NoUser
       THEN /\ last' = Response("deletePoll", caller, id, ErrNotAuthenticated, <<>>)
            /\ UNCHANGED <<polls, votes>>
       ELSE LET deleted == DeletedRows(id, getUser(caller).user) IN
            /\ polls' = polls \ deleted
            /\ votes' = Cascade(deleted)
            /\ last' = Response("deletePoll", caller, id,
                                IF ExactCount(deleted) = 0 THEN ErrNotOwned ELSE Null, <<>>)
    /\ UNCHANGED <<uniqueVotes, nextPollId, reqs, cast>>

updatePollError(caller, f) ==
    IF Rejected(Parsed[f].question, Parsed[f].options) THEN ErrInvalidForm
    ELSE IF getUser(caller).error # Null THEN ErrUser
    ELSE IF getUser(caller).user = NoUser THEN ErrUpdateLogin
    ELSE Null

\* update({question, options}).eq("id", pollId).eq("user_id", user.id)
UpdatedRows(id, user) == PollsOwned(id, user)

updatePoll(caller, id, f) ==
    /\ LET error == updatePollError(caller, f) IN
       /\ IF error = Null
          THEN LET updated == UpdatedRows(id, getUser(caller).user) IN
               polls' = (polls \ updated) \cup
                        {[p EXCEPT !.question = Parsed[f].question,
                                   !.options = Parsed[f].options] : p \in updated}
          ELSE UNCHANGED polls
       /\ last' = Response("updatePoll", caller, id, error, <<>>)
    /\ UNCHANGED <<uniqueVotes, nextPollId, votes, reqs, cast>>

\* ----------------------------------------------------------- specification

\* The requests the slots R can run, with voters V, forms F and option indexes X.
Step(R, V, F, X) ==
    \/ \E caller \in Callers, f \in F : createPoll(caller, f)
    \/ \E caller \in Sessions : getUserPolls(caller)
    \/ \E id \in PollIds : getPollById(id)
    \/ \E r \in R, caller \in V, id \in PollIds, x \in X : submitVoteSelectPoll(r, caller, id, x)
    \/ \E r \in R : submitVoteSelectVote(r)
    \/ \E r \in R : submitVoteInsert(r)
    \/ \E caller \in Sessions, id \in PollIds : deletePoll(caller, id)
    \/ \E caller \in Callers, id \in PollIds, f \in F : updatePoll(caller, id, f)

\* Requests interleave at every awaited database call.
Next == Step(Reqs, {"A", AuthAnonymous}, {1, 2, 5}, OptionInputs)

Spec == Init /\ [][Next]_vars

\* One request at a time: an invocation returns before the next one starts.
SeqNext == Step({1}, Sessions, FormIds, OptionInputs)

SeqSpec == Init /\ [][SeqNext]_vars

\* ------------------------------------------------------------------ claims

\* The rows of votes that poll_id = poll and user_id = user select, ever inserted.
CastVotes(poll, user) ==
    LET S == {v \in BagToSet(cast) : v.poll_id = poll /\ v.user_id = user}
        RECURSIVE N(_)
        N(T) == IF T = {} THEN 0
                ELSE LET v == CHOOSE w \in T : TRUE IN CopiesIn(v, cast) + N(T \ {v})
    IN N(S)

\* C1: with invocations running one after another, whatever the calls and the
\* callers, votes holds at most one row for any poll and any identity.
C1_AtMostOneVote ==
    \A id \in PollIds, u \in Users : CountVotes(id, u) <= 1

\* C1 witness: both identities have voted on the poll, one of them called
\* submitVote again, and each still has one vote.
C1_Witness ==
    /\ last.op = "submitVote" /\ last.error = ErrAlreadyVoted
    /\ \A u \in Users : CountVotes(last.poll, u) = 1 /\ CastVotes(last.poll, u) = 1

\* C2 (as claimed): updatePoll with valid input and deletePoll, called by an
\* identity that does not own the poll (another identity's poll, or no such
\* poll), return a non-null error and leave polls and votes as they were.
C2_ForeignPollRefused ==
    [][\A c \in Users, id \in PollIds :
          PollsOwned(id, c) = {} =>
             /\ deletePoll(c, id) =>
                   last'.error = ErrNotOwned /\ UNCHANGED <<polls, votes>>
             /\ \A f \in FormIds :
                   (updatePoll(c, id, f) /\ updatePollError(c, f) # ErrInvalidForm) =>
                      last'.error # Null /\ UNCHANGED <<polls, votes>>]_vars

\* What the raw input asks for, read off the strings themselves.
Blank(s) == \A i \in 1..Len(s) : s[i] = " "
Stripped(s) ==
    IF Blank(s) THEN <<>>
    ELSE LET first == CHOOSE i \in 1..Len(s) : s[i] # " " /\ \A j \in 1..(i - 1) : s[j] = " "
             final == CHOOSE i \in 1..Len(s) : s[i] # " " /\ \A j \in (i + 1)..Len(s) : s[j] = " "
         IN [k \in 1..(final - first + 1) |-> s[first + k - 1]]
QuestionText(form) == IF Len(form.question) = 0 THEN <<>> ELSE form.question[1]
SolidOptions(form) == {i \in 1..Len(form.options) : ~Blank(form.options[i])}
KthSolid(form, k) ==
    CHOOSE i \in SolidOptions(form) : Cardinality({j \in SolidOptions(form) : j <= i}) = k
FirstTen(form) ==
    LET n == IF Cardinality(SolidOptions(form)) > 10 THEN 10
             ELSE Cardinality(SolidOptions(form))
    IN [k \in 1..n |-> Stripped(form.options[KthSolid(form, k)])]
\* Per form: whether the input is bad, and the question and options it asks for.
Asked ==
    [f \in 1..Len(Forms) |->
        [bad |-> \/ Blank(QuestionText(Forms[f]))
                 \/ Len(Stripped(QuestionText(Forms[f]))) > 300
                 \/ Cardinality(SolidOptions(Forms[f])) < 2,
         question |-> Stripped(QuestionText(Forms[f])),
         options |-> FirstTen(Forms[f])]]
Solid(s) == Len(s) > 0 /\ s[1] # " " /\ s[Len(s)] # " "
WellFormed(p) ==
    /\ Len(p.question) \in 1..300
    /\ Solid(p.question)
    /\ Len(p.options) \in 2..10
    /\ \A i \in 1..Len(p.options) : Solid(p.options[i])

\* C3: every stored poll has a trimmed question of 1 to 300 characters and 2 to
\* 10 non-empty trimmed options; createPoll and updatePoll answer bad input (a
\* blank or over-long question, fewer than two non-blank options) with the
\* validation error and store nothing; what they store is the trimmed question
\* and the first ten non-blank options, trimmed.
C3_StoredPollsWellFormed ==
    /\ [](\A p \in polls : WellFormed(p))
    /\ [][\A c \in Callers, f \in FormIds :
            /\ (last'.op = "createPoll" /\ last'.caller = c /\ createPoll(c, f)) =>
                  /\ Asked[f].bad => last'.error = ErrInvalidForm /\ UNCHANGED polls
                  /\ polls' # polls =>
                        \E p \in polls' \ polls :
                           p.question = Asked[f].question /\ p.options = Asked[f].options
            /\ \A id \in PollIds :
                  (last'.op = "updatePoll" /\ last'.caller = c /\ updatePoll(c, id, f)) =>
                     /\ Asked[f].bad => last'.error = ErrInvalidForm /\ UNCHANGED polls
                     /\ \A p \in polls' \ polls :
                           p.question = Asked[f].question /\ p.options = Asked[f].options]_vars

\* C3 witness: a poll made from the form with thirteen options is stored with
\* ten of them and its 300-character question, after bad input was refused.
C3_Witness ==
    /\ last.error = ErrInvalidForm
    /\ \E p \in polls : Len(p.options) = 10 /\ Len(p.question) = 300

\* C4: submitVote by an authenticated identity on an existing poll with an
\* index below 0 or at or beyond the number of options answers "Invalid option
\* selected." and inserts no vote, whether or not the identity has voted.
C4_InvalidIndexRefused ==
    [][\A r \in Reqs, c \in Users, id \in PollIds, x \in OptionInputs :
          (/\ x[2] = 1
           /\ \E p \in polls : p.id = id /\ (x[1] < 0 \/ x[1] >= Len(p.options))
           /\ submitVoteSelectPoll(r, c, id, x)) =>
             /\ last'.op = "submitVote" /\ last'.error = ErrInvalidOption
             /\ reqs'[r].pc = "idle"
             /\ UNCHANGED <<votes, polls>>]_vars

\* C4 witness: an identity that has a vote on the poll is answered "Invalid
\* option selected.".
C4_Witness ==
    /\ last.op = "submitVote" /\ last.error = ErrInvalidOption
    /\ last.caller \in Users /\ CountVotes(last.poll, last.caller) = 1

C6_SecondVoteRefused ==
    [][\A r \in Reqs :
          /\ \A c \in Users, id \in PollIds, x \in OptionInputs :
                (/\ CountVotes(id, c) = 1
                 /\ x[2] = 1
                 /\ \E p \in polls : p.id = id /\ x[1] >= 0 /\ x[1] < Len(p.options)
                 /\ submitVoteSelectPoll(r, c, id, x)) =>
                   /\ reqs'[r].pc = "selectVote" /\ reqs'[r].user = c /\ reqs'[r].poll = id
                   /\ UNCHANGED <<votes, last>>
          /\ (submitVoteSelectVote(r) /\ CountVotes(reqs[r].poll, reqs[r].user) = 1) =>
                /\ last'.op = "submitVote" /\ last'.error = ErrAlreadyVoted
                /\ last'.caller = reqs[r].user /\ last'.poll = reqs[r].poll
                /\ reqs'[r].pc = "idle"
                /\ UNCHANGED votes]_vars

\* C6 witness: the identity's stored vote is for option 2, a further submitVote
\* was answered "You have already voted on this poll.", and the vote is there.
C6_Witness ==
    /\ last.op = "submitVote" /\ last.error = ErrAlreadyVoted
    /\ votes = SetToBag({VoteRow(last.poll, last.caller, 2)})

\* C7: with the unique constraint on votes(poll_id, user_id), however the
\* duplicate checks and inserts of concurrent submitVote calls interleave:
\* votes holds at most one row per poll and identity, at most one call per poll
\* and identity was ever answered null, an insert is answered null exactly when
\* the poll is there and the identity has no vote on it, and a call that lost
\* the race is answered the constraint's error with the winner's vote stored.
C7_UniqueConstraintClosesRace ==
    /\ [](uniqueVotes =>
            /\ \A id \in PollIds, u \in Users :
                  CountVotes(id, u) <= 1 /\ CastVotes(id, u) <= 1
            /\ (last.op = "submitVote" /\ last.error = ErrUniqueViolation) =>
                  CountVotes(last.poll, last.caller) = 1 /\ CastVotes(last.poll, last.caller) = 1)
    /\ [][\A r \in Reqs :
            (uniqueVotes /\ submitVoteInsert(r)) =>
               /\ last'.error = Null <=>
                     (PollsById(reqs[r].poll) # {} /\ CountVotes(reqs[r].poll, reqs[r].user) = 0)
               /\ last'.error = Null <=> cast' # cast
               /\ last'.error = Null <=> votes' # votes]_vars

\* C7 witness: under the constraint, two calls of one identity passed the
\* duplicate check, one inserted, and the other was answered the constraint's
\* error; one vote is stored.
C7_Witness ==
    /\ uniqueVotes
    /\ last.op = "submitVote" /\ last.error = ErrUniqueViolation
    /\ CountVotes(last.poll, last.caller) = 1

\* One statement's effect on the tables: a poll row inserted, poll rows
\* updated in place, poll rows deleted with their votes, or a vote row inserted.
OneMutation ==
    \/ UNCHANGED <<polls, votes>>
    \/ votes' = votes /\ \E p \in polls' : p \notin polls /\ polls' = polls \cup {p}
    \/ votes' = votes /\ {p.id : p \in polls'} = {p.id : p \in polls}
                      /\ Cardinality(polls') = Cardinality(polls)
    \/ /\ polls' \subseteq polls
       /\ BagToSet(votes') = {v \in BagToSet(votes) : \E p \in polls' : p.id = v.poll_id}
       /\ \A v \in BagToSet(votes') : CopiesIn(v, votes') = CopiesIn(v, votes)
    \/ polls' = polls /\ \E v \in BagToSet(votes') : votes' = votes (+) SetToBag({v})

\* C8: every step changes the tables by at most one statement; a step that
\* answers an error, every step of getUserPolls and getPollById, and the two
\* selects of submitVote leave polls and votes as they were.
C8_ErrorsChangeNothing ==
    [][/\ OneMutation
       /\ last'.error # Null => UNCHANGED <<polls, votes>>
       /\ last'.op \in {"getUserPolls", "getPollById", "none"} => UNCHANGED <<polls, votes>>
       /\ \A r \in Reqs :
             /\ submitVoteSelectVote(r) => UNCHANGED <<polls, votes>>
             /\ reqs[r].pc = "idle" /\ reqs'[r].pc # "idle" => UNCHANGED <<polls, votes>>]_vars

\* C8 witness: a deletePoll was answered "Poll not found or not owned by you"
\* while the poll, another identity's, and a vote on it are stored.
C8_Witness ==
    /\ last.op = "deletePoll" /\ last.error = ErrNotOwned
    /\ \E p \in polls : p.id = last.poll /\ p.user_id # last.caller
    /\ votes # EmptyBag

\* C9 (as claimed): every vote ever inserted is still in votes.
C9_VotesNeverRemoved ==
    \A v \in BagToSet(cast) : CopiesIn(v, votes) >= CopiesIn(v, cast)

\* C9 (amended): votes are never changed, and leave votes only with their
\* poll: the votes of a poll that is stored are the votes ever inserted for it,
\* a poll that is gone has none, and votes holds no other row.
C9_VotesLeaveOnlyWithTheirPoll ==
    /\ \A v \in BagToSet(cast) :
          CopiesIn(v, votes) = IF PollsById(v.poll_id) # {} THEN CopiesIn(v, cast) ELSE 0
    /\ BagToSet(votes) \subseteq BagToSet(cast)

\* C9 witness: votes were inserted for a poll, the poll was deleted, and votes
\* is empty.
C9_Witness ==
    /\ last.op = "deletePoll" /\ last.error = Null
    /\ cast # EmptyBag /\ votes = EmptyBag /\ polls = {}

\* C10 (as claimed): a vote that submitVote inserts has an index within the
\* options its poll has when the insert happens.
C10_InsertedIndexInRange ==
    [][\A r \in Reqs :
          (submitVoteInsert(r) /\ votes' # votes) =>
             \E p \in polls : /\ p.id = reqs[r].poll
                              /\ reqs[r].index >= 0
                              /\ reqs[r].index < Len(p.options)]_vars

====
